---- MODULE Spec2Model ----
(***************************************************************************)
(* Model of mailto-mail-merge.py: read_csv, read_message, generate_mailto  *)
(* and main.  Text is modelled as a sequence of one-character strings, so  *)
(* that replace, split, strip and percent-encoding are computed character  *)
(* by character as the Python code computes them.                          *)
(***************************************************************************)
EXTENDS Integers, Sequences, FiniteSets, TLC

VARIABLES pc, args, csv_file, msg_file, opened, contacts, message, converted,
          cc_list, html_lines, i, stderr, exit_status, stdout, out_file, call

vars == <<pc, args, csv_file, msg_file, opened, contacts, message, converted,
          cc_list, html_lines, i, stderr, exit_status, stdout, out_file, call>>

main_vars == <<pc, args, csv_file, msg_file, opened, contacts, message, converted,
               cc_list, html_lines, i, stderr, exit_status, stdout, out_file>>

(***************************************************************************)
(* Bounds of the model.                                                    *)
(***************************************************************************)
MaxRows == 2

MaxLen == 2

MaxPieces == 3

MaxIndex == 12

MaxCcLen == 4

(***************************************************************************)
(* Python's None.  It is a sequence (so that it can be compared with       *)
(* text) whose only element is not a character, so it equals no text.      *)
(***************************************************************************)
None == <<"<None>">>

\* Python truthiness of an optional string: None and "" are both falsy.
Falsy(v) == v = None \/ v = <<>>

\* str(v) as an f-string renders it: None is rendered as the text None.
Fmt(v) == IF v = None THEN <<"N", "o", "n", "e">> ELSE v

(***************************************************************************)
(* Characters and their code points.                                       *)
(***************************************************************************)
Letters == {"a", "b", "c", "d", "e", "h", "i", "j", "l", "m", "n", "o", "p", "s",
            "t", "u", "x", "y", "A", "B", "H", "N", "S"}

Digits == {"0", "1", "2", "3", "4", "5", "6", "7", "8", "9"}

Ord(c) ==
  CASE c = "\n" -> 10
    [] c = " " -> 32
    [] c = "%" -> 37
    [] c = "&" -> 38
    [] c = "+" -> 43
    [] c = "," -> 44
    [] c = "-" -> 45
    [] c = "." -> 46
    [] c = "/" -> 47
    [] c = ":" -> 58
    [] c = "<" -> 60
    [] c = "=" -> 61
    [] c = ">" -> 62
    [] c = "?" -> 63
    [] c = "@" -> 64
    [] c = "_" -> 95
    [] c = "{" -> 123
    [] c = "}" -> 125
    [] c = "~" -> 126
    [] c = "0" -> 48 [] c = "1" -> 49 [] c = "2" -> 50 [] c = "3" -> 51
    [] c = "4" -> 52 [] c = "5" -> 53 [] c = "6" -> 54 [] c = "7" -> 55
    [] c = "8" -> 56 [] c = "9" -> 57
    [] c = "A" -> 65 [] c = "B" -> 66 [] c = "H" -> 72 [] c = "N" -> 78 [] c = "S" -> 83
    [] c = "a" -> 97 [] c = "b" -> 98 [] c = "c" -> 99 [] c = "d" -> 100
    [] c = "e" -> 101 [] c = "h" -> 104 [] c = "i" -> 105 [] c = "j" -> 106
    [] c = "l" -> 108 [] c = "m" -> 109 [] c = "n" -> 110 [] c = "o" -> 111
    [] c = "p" -> 112 [] c = "s" -> 115 [] c = "t" -> 116 [] c = "u" -> 117
    [] c = "x" -> 120 [] c = "y" -> 121

HexDigit(n) ==
  CASE n = 0 -> "0" [] n = 1 -> "1" [] n = 2 -> "2" [] n = 3 -> "3"
    [] n = 4 -> "4" [] n = 5 -> "5" [] n = 6 -> "6" [] n = 7 -> "7"
    [] n = 8 -> "8" [] n = 9 -> "9" [] n = 10 -> "A" [] n = 11 -> "B"
    [] n = 12 -> "C" [] n = 13 -> "D" [] n = 14 -> "E" [] n = 15 -> "F"

(***************************************************************************)
(* Python string methods.                                                  *)
(***************************************************************************)
RECURSIVE Concat(_)
Concat(ss) == IF ss = <<>> THEN <<>> ELSE Head(ss) \o Concat(Tail(ss))

StartsWith(s, p) == Len(s) >= Len(p) /\ SubSeq(s, 1, Len(p)) = p

EndsWith(s, p) == Len(s) >= Len(p) /\ SubSeq(s, Len(s) - Len(p) + 1, Len(s)) = p

\* str.replace(old, new) for a non-empty old: leftmost, non-overlapping
\* occurrences, found in one left-to-right scan of the original text.
RECURSIVE Replace(_, _, _)
Replace(s, old, new) ==
  IF Len(s) < Len(old) THEN s
  ELSE IF SubSeq(s, 1, Len(old)) = old
       THEN new \o Replace(SubSeq(s, Len(old) + 1, Len(s)), old, new)
       ELSE <<Head(s)>> \o Replace(Tail(s), old, new)

\* str.split(sep) for a one-character separator: "" splits to [""].
RECURSIVE Split(_, _)
Split(s, sep) ==
  IF \A k \in 1..Len(s) : s[k] # sep THEN <<s>>
  ELSE LET p == CHOOSE k \in 1..Len(s) : s[k] = sep /\ \A q \in 1..(k - 1) : s[q] # sep
       IN <<SubSeq(s, 1, p - 1)>> \o Split(SubSeq(s, p + 1, Len(s)), sep)

\* sep.join(list)
RECURSIVE Join(_, _)
Join(list, sep) ==
  IF list = <<>> THEN <<>>
  ELSE IF Len(list) = 1 THEN Head(list)
       ELSE Head(list) \o sep \o Join(Tail(list), sep)

Whitespace == {" ", "\n"}

RECURSIVE LStrip(_)
LStrip(s) == IF s # <<>> /\ Head(s) \in Whitespace THEN LStrip(Tail(s)) ELSE s

RECURSIVE RStrip(_)
RStrip(s) ==
  IF s # <<>> /\ s[Len(s)] \in Whitespace THEN RStrip(SubSeq(s, 1, Len(s) - 1)) ELSE s

\* str.strip()
Strip(s) == RStrip(LStrip(s))

\* str(i) for a non-negative integer.
RECURSIVE Str(_)
Str(n) == IF n < 10 THEN <<HexDigit(n)>> ELSE Str(n \div 10) \o <<HexDigit(n % 10)>>

(***************************************************************************)
(* urllib.parse.quote(v, safe='') and urlencode(params, quote_via=quote).  *)
(***************************************************************************)
AlwaysSafe == Letters \cup Digits \cup {"_", ".", "-", "~"}

\* QuoteChar as quote_plus encodes: a space becomes +.
QuoteChar_Plus(c) ==
  IF c \in AlwaysSafe THEN <<c>>
  ELSE IF c = " " THEN <<"+">>
       ELSE <<"%", HexDigit(Ord(c) \div 16), HexDigit(Ord(c) % 16)>>

QuoteChar(c) ==
  IF c \in AlwaysSafe THEN <<c>>
  ELSE <<"%", HexDigit(Ord(c) \div 16), HexDigit(Ord(c) % 16)>>

RECURSIVE Quote(_)
Quote(s) == IF s = <<>> THEN <<>> ELSE QuoteChar(Head(s)) \o Quote(Tail(s))

\* One key=value pair of the query string; the key is quoted like the value.
EncodePair(p) == Quote(p.key) \o <<"=">> \o Quote(p.value)

RECURSIVE EncodePairs(_)
EncodePairs(ps) ==
  IF ps = <<>> THEN <<>> ELSE <<EncodePair(Head(ps))>> \o EncodePairs(Tail(ps))

\* params is the dict in insertion order.
UrlEncode(params) == Join(EncodePairs(params), <<"&">>)

K_subject == <<"s", "u", "b", "j", "e", "c", "t">>

K_body == <<"b", "o", "d", "y">>

K_html_body == <<"h", "t", "m", "l", "-", "b", "o", "d", "y">>

K_cc == <<"c", "c">>

T_mailto == <<"m", "a", "i", "l", "t", "o", ":">>

\* BodyKey that ignores the flag.
BodyKey_AlwaysBody(use_html_body) == K_body

BodyKey(use_html_body) == IF use_html_body THEN K_html_body ELSE K_body

\* CcParams that adds the parameter for an empty list too.
CcParams_Always(ccs) == <<[key |-> K_cc, value |-> Join(ccs, <<",">>)]>>

CcParams(ccs) ==
  IF ccs # <<>> THEN <<[key |-> K_cc, value |-> Join(ccs, <<",">>)]>> ELSE <<>>

MailtoParams(subject, body, ccs, use_html_body) ==
  <<[key |-> K_subject, value |-> subject],
    [key |-> BodyKey(use_html_body), value |-> body]>> \o CcParams(ccs)

generate_mailto(email, subject, body, ccs, use_html_body) ==
  T_mailto \o Fmt(email) \o <<"?">>
    \o UrlEncode(MailtoParams(subject, body, ccs, use_html_body))

(***************************************************************************)
(* The steps of main that work on text.                                    *)
(***************************************************************************)
T_Name == <<"{", "{", "N", "a", "m", "e", "}", "}">>

T_name == <<"{", "{", "n", "a", "m", "e", "}", "}">>

\* personalized_message: {{Name}} is replaced first, then {{name}} in the result.
Personalize(msg, name) == Replace(Replace(msg, T_Name, name), T_name, name)

\* The CC string as a list.
ParseCc(cc) ==
  IF ~Falsy(cc)
  THEN LET segs == Split(cc, ",")
           idx == {k \in 1..Len(segs) : Strip(segs[k]) # <<>>}
           F[k \in 0..Len(segs)] ==
             IF k = 0 THEN <<>>
             ELSE IF k \in idx THEN F[k - 1] \o <<Strip(segs[k])>> ELSE F[k - 1]
       IN F[Len(segs)]
  ELSE <<>>

\* Compact that leaves the renderer's output as it is.
Compact_Skipped(html) == html

\* The post-processing of the markdown renderer's output.
Compact(html) == Replace(html, <<">", "\n", "<">>, <<">", "<">>)

T_md == <<".", "m", "d">>

ShouldConvert(html_body, message_path) == html_body /\ EndsWith(message_path, T_md)

\* LinkId without the position index.
LinkId_NoIndex(idx, email) ==
  <<"m", "a", "i", "l", "t", "o", "-">>
    \o Replace(Replace(email, <<"@">>, <<"-", "a", "t", "-">>),
               <<".">>, <<"-", "d", "o", "t", "-">>)

LinkId(idx, email) ==
  <<"m", "a", "i", "l", "t", "o", "-">> \o Str(idx) \o <<"-">>
    \o Replace(Replace(email, <<"@">>, <<"-", "a", "t", "-">>),
               <<".">>, <<"-", "d", "o", "t", "-">>)

(***************************************************************************)
(* Inputs of a run: the command line, and the files as the run finds them. *)
(***************************************************************************)
P_csv == <<"c">>

P_md == <<"m", ".", "m", "d">>

P_md_noext == <<"m", "d">>

P_txt == <<"m", ".", "t">>

P_out == <<"o">>

ContactsArgs == {None, <<>>, P_csv}

MessageArgs == {None, <<>>, P_md, P_md_noext, P_txt}

SubjectArgs == {None, <<>>, <<"S", " ", "1">>}

OutputArgs == {None, <<>>, P_out}

CcArgs == {<<>>,
           <<" ", "b", "@", "y", ",", ",", "a", "@", "x", " ", ",", "a", "@", "x">>}

ArgSets == [contacts : ContactsArgs, message : MessageArgs, subject : SubjectArgs,
            output : OutputArgs, cc : CcArgs, html_body : BOOLEAN]

\* The header row of the CSV file: its column names.
Headers == {<<"name", "email">>, <<"email", "name">>, <<"name">>}

\* The data rows the csv reader yields: lists of fields; a blank line is [],
\* and a row can have fewer or more fields than the header has columns.
RowSet == {<<<<"A", "l">>, <<"a", "@", "x", ".", "c">>>>,
           <<<<"B">>>>,
           <<>>,
           <<<<"A", "l">>, <<"a", "@", "x", ".", "c">>, <<"x">>>>,
           <<<<"\n">>, <<"b", "@", "y">>>>,
           <<<<">">>, <<"b", "@", "y">>>>,
           <<<<>>, <<"b", "@", "y">>>>}

RowSeqs == UNION {[1..n -> RowSet] : n \in 0..MaxRows}

CsvFiles == [header : Headers, rows : RowSeqs]

\* Contents of the message file.
Templates == {<<"H", "i", " ">> \o T_name,
              <<"x">>,
              <<">">> \o T_Name \o <<"\n", "<">>}

\* What markdown.markdown can return: HTML in which the tokens survive as text.
MdOutputs == {<<"<", "p", ">">> \o T_name \o <<"<", "/", "p", ">", "\n", "<", "p", ">", "<", "/", "p", ">">>,
              <<"<", "p", ">">> \o T_Name \o <<"\n", "<", "b", ">">>,
              <<"<", "p", ">", "\n">> \o T_name \o <<"<", "/", "p", ">">>}

NoFile == [header |-> <<>>, rows |-> <<>>]

(***************************************************************************)
(* csv.DictReader and read_csv.                                            *)
(***************************************************************************)
\* The dict DictReader builds for one row: every column name is a key; a
\* column the row has no field for gets None, and of two columns with the
\* same name the last one wins.  The fields beyond the header go under the
\* key None, which main never reads; they are left out.
RowDict(header, row) ==
  [k \in {header[j] : j \in 1..Len(header)} |->
     LET last == CHOOSE j \in 1..Len(header) :
                   header[j] = k /\ \A q \in (j + 1)..Len(header) : header[q] # k
     IN IF last <= Len(row) THEN row[last] ELSE None]

\* DictReader skips rows that are [].
RECURSIVE DictRows(_, _)
DictRows(header, rows) ==
  IF rows = <<>> THEN <<>>
  ELSE IF Head(rows) = <<>> THEN DictRows(header, Tail(rows))
       ELSE <<RowDict(header, Head(rows))>> \o DictRows(header, Tail(rows))

KeepRow(row) == "email" \in DOMAIN row /\ "name" \in DOMAIN row

RECURSIVE FilterRows(_)
FilterRows(ds) ==
  IF ds = <<>> THEN <<>>
  ELSE IF KeepRow(Head(ds)) THEN <<Head(ds)>> \o FilterRows(Tail(ds))
       ELSE FilterRows(Tail(ds))

read_csv(file) == FilterRows(DictRows(file.header, file.rows))

(***************************************************************************)
(* The page.                                                               *)
(***************************************************************************)
Static(t) == [kind |-> "static", text |-> t, link_id |-> <<>>, name |-> <<>>,
              href |-> <<>>, email |-> <<>>]

\* The list item: the slots of the format string of lines 213-214.
Li(link_id, name, href, email) ==
  [kind |-> "li",
   text |-> "<li class=\"mailto-item\" data-link-id=\"{link_id}\" onclick=\"markClicked(this)\">{name}: <a href=\"{mailto_link}\">{email}</a></li>",
   link_id |-> link_id,
   name |-> name, href |-> href, email |-> email]

RECURSIVE StaticLines(_)
StaticLines(ts) == IF ts = <<>> THEN <<>> ELSE <<Static(Head(ts))>> \o StaticLines(Tail(ts))

HtmlHead ==
  StaticLines(<<
    "<!DOCTYPE html>",
    "<html>",
    "<head>",
    "<meta charset='utf-8'>",
    "<title>Mail Merge Links</title>",
    "<style>",
    ".clicked { text-decoration: line-through; color: #666; }",
    ".mailto-item { margin: 10px 0; }",
    "</style>",
    "<script>",
    "function markClicked(element) {",
    "  element.classList.add('clicked');",
    "  // Store clicked state in localStorage",
    "  const clickedLinks = JSON.parse(localStorage.getItem('clickedMailtoLinks') || '[]');",
    "  const linkId = element.getAttribute('data-link-id');",
    "  if (!clickedLinks.includes(linkId)) {",
    "    clickedLinks.push(linkId);",
    "    localStorage.setItem('clickedMailtoLinks', JSON.stringify(clickedLinks));",
    "  }",
    "}",
    "",
    "function restoreClickedState() {",
    "  const clickedLinks = JSON.parse(localStorage.getItem('clickedMailtoLinks') || '[]');",
    "  clickedLinks.forEach(linkId => {",
    "    const element = document.querySelector(`[data-link-id='${linkId}']`);",
    "    if (element) {",
    "      element.classList.add('clicked');",
    "    }",
    "  });",
    "}",
    "",
    "window.onload = restoreClickedState;",
    "</script>",
    "</head>",
    "<body>",
    "<h1>Mailto Links</h1>",
    "<ul>"
  >>)

HtmlFoot == StaticLines(<<"</ul>", "</body>", "</html>">>)

AppendLi(lines, item) == Append(lines, item)

AssembleLines(lines) == lines \o HtmlFoot

\* HasNext with an off-by-one bound: the last contact is never visited.
HasNext_SkipsLast(idx, cs) == idx + 1 < Len(cs)

\* enumerate(contacts) has a next contact.
HasNext(idx, cs) == idx < Len(cs)

MissingArgs(a) ==
  (IF Falsy(a.contacts) THEN <<"--contacts">> ELSE <<>>)
    \o (IF Falsy(a.message) THEN <<"--message">> ELSE <<>>)
    \o (IF Falsy(a.subject) THEN <<"--subject">> ELSE <<>>)

\* The two lines printed to the error stream; a line is its pieces in order.
MissingReport(missing_args) ==
  <<<<"Error: Missing required arguments: ">> \o Join([k \in 1..Len(missing_args) |-> <<missing_args[k]>>], <<", ">>),
    <<"Use --help for usage information.">>>>

Traceback(exc) == <<<<"Traceback (most recent call last):", exc>>>>

\* WrittenFile that leaves the file created and empty when the write fails.
WrittenFile_Truncates(f, content, ok) ==
  IF ok THEN [touched |-> TRUE, content |-> content] ELSE [touched |-> TRUE, content |-> <<>>]

\* The output file after open(args.output, "w") and f.write(html_content).
WrittenFile(f, content, ok) ==
  IF ok THEN [touched |-> TRUE, content |-> content] ELSE f

NoCall == [op |-> "none"]

(***************************************************************************)
(* main, one action per step.                                              *)
(***************************************************************************)
Init ==
  /\ pc = "check_args"
  /\ args \in ArgSets
  /\ csv_file = NoFile
  /\ msg_file = <<>>
  /\ opened = <<>>
  /\ contacts = <<>>
  /\ message = <<>>
  /\ converted = FALSE
  /\ cc_list = <<>>
  /\ html_lines = <<>>
  /\ i = 0
  /\ stderr = <<>>
  /\ exit_status = -1
  /\ stdout = <<>>
  /\ out_file = [touched |-> FALSE, content |-> <<>>]
  /\ call = NoCall

\* An uncaught exception: traceback on the error stream, exit status 1.
Raise(exc) ==
  /\ pc' = "failed"
  /\ stderr' = stderr \o Traceback(exc)
  /\ exit_status' = 1

\* Lines 124-139: the required arguments.
CheckArgs ==
  /\ pc = "check_args"
  /\ IF MissingArgs(args) # <<>>
     THEN /\ stderr' = stderr \o MissingReport(MissingArgs(args))
          /\ exit_status' = 1
          /\ pc' = "missing"
     ELSE /\ pc' = "parse_cc"
          /\ UNCHANGED <<stderr, exit_status>>
  /\ UNCHANGED <<args, csv_file, msg_file, opened, contacts, message, converted,
                 cc_list, html_lines, i, stdout, out_file, call>>

\* Lines 141-146.
ParseCcList ==
  /\ pc = "parse_cc"
  /\ cc_list' = ParseCc(args.cc)
  /\ pc' = "read_csv"
  /\ UNCHANGED <<args, csv_file, msg_file, opened, contacts, message, converted,
                 html_lines, i, stderr, exit_status, stdout, out_file, call>>

\* Line 148: the contacts file cannot be opened, or is read.
ReadCsv ==
  /\ pc = "read_csv"
  /\ \/ /\ Raise("OSError")
        /\ UNCHANGED <<csv_file, opened, contacts>>
     \/ \E f \in CsvFiles :
          /\ csv_file' = f
          /\ opened' = Append(opened, args.contacts)
          /\ contacts' = read_csv(f)
          /\ pc' = "read_message"
          /\ UNCHANGED <<stderr, exit_status>>
  /\ UNCHANGED <<args, msg_file, message, converted, cc_list, html_lines, i,
                 stdout, out_file, call>>

\* Line 149: the message file cannot be opened, or is read.
ReadMessage ==
  /\ pc = "read_message"
  /\ \/ /\ Raise("OSError")
        /\ UNCHANGED <<msg_file, opened, message>>
     \/ \E t \in Templates :
          /\ msg_file' = t
          /\ opened' = Append(opened, args.message)
          /\ message' = t
          /\ pc' = "convert"
          /\ UNCHANGED <<stderr, exit_status>>
  /\ UNCHANGED <<args, csv_file, contacts, converted, cc_list, html_lines, i,
                 stdout, out_file, call>>

\* Lines 151-195: the markdown conversion, if requested, and the page head.
ConvertMarkdown ==
  /\ pc = "convert"
  /\ IF ShouldConvert(args.html_body, args.message)
     THEN \E h \in MdOutputs :
            /\ message' = Compact(h)
            /\ converted' = TRUE
     ELSE UNCHANGED <<message, converted>>
  /\ html_lines' = HtmlHead
  /\ pc' = "loop"
  /\ UNCHANGED <<args, csv_file, msg_file, opened, contacts, cc_list, i, stderr,
                 exit_status, stdout, out_file, call>>

\* Lines 197-215: one iteration of the loop over the contacts.
ProcessContact ==
  /\ pc = "loop"
  /\ HasNext(i, contacts)
  /\ LET contact == contacts[i + 1]
         name == contact["name"]
         email == contact["email"]
     IN IF name = None
        THEN /\ Raise("TypeError")
             /\ UNCHANGED <<html_lines, i>>
        ELSE IF email = None
             THEN /\ Raise("AttributeError")
                  /\ UNCHANGED <<html_lines, i>>
             ELSE /\ html_lines' =
                       AppendLi(html_lines,
                                Li(LinkId(i, email), name,
                                   generate_mailto(email, args.subject,
                                                   Personalize(message, name),
                                                   cc_list, args.html_body),
                                   email))
                  /\ i' = i + 1
                  /\ UNCHANGED <<pc, stderr, exit_status>>
  /\ UNCHANGED <<args, csv_file, msg_file, opened, contacts, message, converted,
                 cc_list, stdout, out_file, call>>

\* Line 217.
Assemble ==
  /\ pc = "loop"
  /\ ~HasNext(i, contacts)
  /\ html_lines' = AssembleLines(html_lines)
  /\ pc' = "write"
  /\ UNCHANGED <<args, csv_file, msg_file, opened, contacts, message, converted,
                 cc_list, i, stderr, exit_status, stdout, out_file, call>>

\* Lines 219-225: the page goes to the file or to standard output.
WriteOutput ==
  /\ pc = "write"
  /\ IF ~Falsy(args.output)
     THEN \E ok \in BOOLEAN :
            /\ out_file' = WrittenFile(out_file, html_lines, ok)
            /\ IF ok
               THEN /\ pc' = "done"
                    /\ exit_status' = 0
                    /\ UNCHANGED stderr
               ELSE Raise("OSError")
            /\ UNCHANGED stdout
     ELSE /\ stdout' = Append(stdout, html_lines)
          /\ pc' = "done"
          /\ exit_status' = 0
          /\ UNCHANGED <<stderr, out_file>>
  /\ UNCHANGED <<args, csv_file, msg_file, opened, contacts, message, converted,
                 cc_list, html_lines, i, call>>

Next ==
  \/ CheckArgs
  \/ ParseCcList
  \/ ReadCsv
  \/ ReadMessage
  \/ ConvertMarkdown
  \/ ProcessContact
  \/ Assemble
  \/ WriteOutput

Spec == Init /\ [][Next]_vars

(***************************************************************************)
(* Reading a link back: the inverse of the percent-encoding and the split  *)
(* of the query string into its parameters.                                *)
(***************************************************************************)
AllChars == Letters \cup Digits \cup
            {"\n", " ", "%", "&", "+", ",", "-", ".", "/", ":", "<", "=", ">", "?",
             "@", "_", "{", "}", "~"}

IsHex(d) == \E n \in 0..15 : HexDigit(n) = d

HexVal(d) == CHOOSE n \in 0..15 : HexDigit(n) = d

Chr(n) == CHOOSE c \in AllChars : Ord(c) = n

RECURSIVE Unquote(_)
Unquote(s) ==
  IF s = <<>> THEN <<>>
  ELSE IF s[1] = "%" /\ Len(s) >= 3 /\ IsHex(s[2]) /\ IsHex(s[3])
       THEN <<Chr(HexVal(s[2]) * 16 + HexVal(s[3]))>> \o Unquote(SubSeq(s, 4, Len(s)))
       ELSE <<s[1]>> \o Unquote(Tail(s))

\* The text after "mailto:<email>?".
QueryOf(link, email) == SubSeq(link, Len(T_mailto) + Len(email) + 2, Len(link))

\* The parameters of a link, in order: key, raw value, and the number of
\* "="-separated parts of the parameter (2 for a well-formed key=value).
ParamsOf(link, email) ==
  LET segs == Split(QueryOf(link, email), "&")
  IN [k \in 1..Len(segs) |->
        LET kv == Split(segs[k], "=")
        IN [key |-> kv[1], parts |-> Len(kv), raw |-> kv[Len(kv)]]]

Contains(s, sub) == \E k \in 1..(Len(s) - Len(sub) + 1) : SubSeq(s, k, k + Len(sub) - 1) = sub

TagNewlineTag == <<">", "\n", "<">>

IsLi(l) == l.kind = "li"

LiItems(lines) == SelectSeq(lines, IsLi)

\* The decoded body of a list item's link: its second parameter.
DecodedBody(item) == Unquote(ParamsOf(item.href, item.email)[2].raw)

(***************************************************************************)
(* The rows of the CSV file that have both a name and an email field,      *)
(* stated on the raw rows.                                                 *)
(***************************************************************************)
HasField(h, r, k) == \E j \in 1..Len(h) : h[j] = k /\ j <= Len(r)

FieldOf(h, r, k) == r[CHOOSE j \in 1..Len(h) : h[j] = k /\ j <= Len(r)]

RowsWithBoth(file) ==
  LET Both(r) == HasField(file.header, r, "name") /\ HasField(file.header, r, "email")
  IN SelectSeq(file.rows, Both)

AfterCsv == pc \in {"read_message", "convert", "loop", "write", "done", "failed"}

\* C1: the assembled page has exactly one list item per loaded contact, and
\* the k-th item is built from the k-th input row that had both a name and
\* an email (input order, duplicates kept); while the loop runs, the items
\* so far are those of the first i contacts.
C1_ItemsFollowRows ==
  LET items == LiItems(html_lines)
      rows == RowsWithBoth(csv_file)
      h == csv_file.header
  IN /\ pc \in {"loop", "write", "done"} =>
          /\ Len(items) = i
          /\ \A k \in 1..Len(items) :
               /\ items[k].name = contacts[k]["name"]
               /\ items[k].email = contacts[k]["email"]
     /\ pc \in {"write", "done"} =>
          /\ Len(items) = Len(contacts)
          /\ Len(items) = Len(rows)
          /\ \A k \in 1..Len(items) :
               /\ items[k].name = FieldOf(h, rows[k], "name")
               /\ items[k].email = FieldOf(h, rows[k], "email")
               /\ StartsWith(items[k].link_id,
                             <<"m", "a", "i", "l", "t", "o", "-">> \o Str(k - 1) \o <<"-">>)

\* A finished page with two list items built from two different rows.
C1_Witness ==
  /\ pc = "done"
  /\ Len(LiItems(html_lines)) = 2
  /\ LiItems(html_lines)[1].name # LiItems(html_lines)[2].name

\* A finished page with two list items built from two equal rows.
C1_WitnessDuplicates ==
  /\ pc = "done"
  /\ Len(csv_file.rows) = 2
  /\ csv_file.rows[1] = csv_file.rows[2]
  /\ Len(LiItems(html_lines)) = 2

\* C2: read_csv drops every data row that lacks a name value or an email
\* value and keeps every other row, in order.
C2_DropsIncompleteRows ==
  AfterCsv =>
    LET rows == RowsWithBoth(csv_file)
        h == csv_file.header
    IN /\ Len(contacts) = Len(rows)
       /\ \A k \in 1..Len(contacts) :
            /\ contacts[k]["name"] = FieldOf(h, rows[k], "name")
            /\ contacts[k]["email"] = FieldOf(h, rows[k], "email")

\* The required inputs that are absent from the command line.
Absent(a) ==
  (IF a.contacts = None THEN <<"--contacts">> ELSE <<>>)
    \o (IF a.message = None THEN <<"--message">> ELSE <<>>)
    \o (IF a.subject = None THEN <<"--subject">> ELSE <<>>)

\* The names listed on the first line of the error stream.
Reported(line) == [k \in 1..(Len(line) \div 2) |-> line[2 * k]]

Failed == pc \in {"failed", "missing"}

NothingWritten == stdout = <<>> /\ ~out_file.touched /\ out_file.content = <<>>

\* The complete document: head, one list item per contact, foot.
CompleteDocument(doc) ==
  /\ Len(doc) = Len(HtmlHead) + Len(contacts) + Len(HtmlFoot)
  /\ SubSeq(doc, 1, Len(HtmlHead)) = HtmlHead
  /\ \A k \in 1..Len(contacts) : doc[Len(HtmlHead) + k].kind = "li"
  /\ SubSeq(doc, Len(doc) - 2, Len(doc)) = StaticLines(<<"</ul>", "</body>", "</html>">>)

OutputState ==
  /\ pc = "done" =>
       /\ exit_status = 0
       /\ IF args.output # None /\ args.output # <<>>
          THEN out_file.touched /\ CompleteDocument(out_file.content) /\ stdout = <<>>
          ELSE Len(stdout) = 1 /\ CompleteDocument(stdout[1]) /\ ~out_file.touched
  /\ Failed => exit_status = 1 /\ NothingWritten
  /\ pc # "done" => NothingWritten

C4_WitnessWriteFails == pc = "failed" /\ i = 2 /\ Len(contacts) = 2

AfterConvert == pc \in {"loop", "write", "done"} \/ (pc = "failed" /\ html_lines # <<>>)

\* The message file name ends in .md
NamedMd(p) ==
  /\ Len(p) >= 3
  /\ p[Len(p) - 2] = "."
  /\ p[Len(p) - 1] = "m"
  /\ p[Len(p)] = "d"

ConvertedIffRequested ==
  AfterConvert =>
    /\ converted <=> (args.html_body /\ NamedMd(args.message))
    /\ ~converted => message = msg_file

\* A name that cannot put a newline between two tags: it is not empty and
\* has no ">", newline or "<".
PlainName(name) ==
  /\ name # <<>>
  /\ \A k \in 1..Len(name) : name[k] \notin {">", "\n", "<"}

\* C9 as stated: the template is converted exactly when the flag is set and
\* the message file name ends in .md, and after a conversion no decoded body
\* has a newline directly between two tags, for every contact.
C9_NoTagNewlineInAnyBody ==
  /\ ConvertedIffRequested
  /\ converted =>
       \A k \in 1..Len(LiItems(html_lines)) :
         ~Contains(DecodedBody(LiItems(html_lines)[k]), TagNewlineTag)

\* C9 amended: the template is converted exactly when the flag is set and
\* the message file name ends in .md (otherwise it is used as loaded); after
\* a conversion the template has no newline directly between two tags, and
\* neither has the decoded body of any contact whose name is not empty and
\* has no ">", newline or "<".
C9_NoTagNewlineForPlainNames ==
  /\ ConvertedIffRequested
  /\ converted =>
       /\ ~Contains(message, TagNewlineTag)
       /\ \A k \in 1..Len(LiItems(html_lines)) :
            PlainName(LiItems(html_lines)[k].name) =>
              ~Contains(DecodedBody(LiItems(html_lines)[k]), TagNewlineTag)

\* A converted template whose block spacing was compacted, in the link of a
\* contact with a plain name.
C9_Witness ==
  /\ pc = "done"
  /\ converted
  /\ Contains(message, <<">", "<">>)
  /\ \E k \in 1..Len(LiItems(html_lines)) :
       /\ PlainName(LiItems(html_lines)[k].name)
       /\ Contains(DecodedBody(LiItems(html_lines)[k]), <<">", "<">>)

(***************************************************************************)
(* generate_mailto as a function of its arguments.                         *)
(***************************************************************************)
Idle ==
  /\ pc = "idle"
  /\ args = [contacts |-> None, message |-> None, subject |-> None,
             output |-> None, cc |-> <<>>, html_body |-> FALSE]
  /\ csv_file = NoFile
  /\ msg_file = <<>>
  /\ opened = <<>>
  /\ contacts = <<>>
  /\ message = <<>>
  /\ converted = FALSE
  /\ cc_list = <<>>
  /\ html_lines = <<>>
  /\ i = 0
  /\ stderr = <<>>
  /\ exit_status = -1
  /\ stdout = <<>>
  /\ out_file = [touched |-> FALSE, content |-> <<>>]

\* The characters argument values are drawn from.
ValueChars == {"a", "~", "0", "2", " ", "/", "&", "=", "?", "\n", "+", "%", "@", ","}

StringsOver(chars, n) == UNION {[1..k -> chars] : k \in 0..n}

WideValues == StringsOver(ValueChars, MaxLen)

SmallValues == {<<>>, <<"B">>}

MailtoEmails == {<<"a", "@", "x">>, <<"a", "?", "b", "=", "c", "&", "d">>}

MailtoCcLists == {<<>>, <<<<"a", "@", "x">>>>, <<<<"b", "@", "y">>, <<"a", "@", "x">>>>}

MailtoCall(e, s, b, c, u) ==
  [op |-> "generate_mailto", email |-> e, subject |-> s, body |-> b, cc_list |-> c,
   use_html_body |-> u, returned |-> FALSE, result |-> <<>>]

\* One argument is drawn from the wide values (the subject, the body or an
\* address of the CC list), the others from the small sets.
InitMailto ==
  /\ Idle
  /\ \E e \in MailtoEmails, w \in WideValues, v \in SmallValues, u \in BOOLEAN :
       \/ \E c \in MailtoCcLists : call = MailtoCall(e, w, v, c, u)
       \/ \E c \in MailtoCcLists : call = MailtoCall(e, v, w, c, u)
       \/ call = MailtoCall(e, v, <<"B">>, <<w, <<"a", "@", "x">>>>, u)

GenerateMailto ==
  /\ call.op = "generate_mailto"
  /\ ~call.returned
  /\ call' = [call EXCEPT !.returned = TRUE,
                          !.result = generate_mailto(call.email, call.subject, call.body,
                                                     call.cc_list, call.use_html_body)]
  /\ UNCHANGED main_vars

NextMailto == GenerateMailto

SpecMailto == InitMailto /\ [][NextMailto]_vars

Returned == call.op = "generate_mailto" /\ call.returned

\* C5: the link is mailto:<email>?subject=<enc>&<key>=<enc>[&cc=<enc>]: the
\* subject parameter comes first, exactly one body parameter follows, whose
\* key is html-body if and only if use_html_body is set and body otherwise,
\* and a cc parameter may come last.
C5_LinkForm ==
  Returned =>
    LET r == call.result
        ps == ParamsOf(r, call.email)
        bodies == {k \in 1..Len(ps) : ps[k].key \in {K_body, K_html_body}}
    IN /\ StartsWith(r, T_mailto \o call.email \o <<"?">>)
       /\ Len(ps) \in {2, 3}
       /\ \A k \in 1..Len(ps) : ps[k].parts = 2
       /\ ps[1].key = K_subject
       /\ bodies = {2}
       /\ ps[2].key = K_html_body <=> call.use_html_body
       /\ ps[2].key = K_body <=> ~call.use_html_body
       /\ Len(ps) = 3 => ps[3].key = K_cc
       /\ Quote(call.subject) = ps[1].raw
       /\ Quote(call.body) = ps[2].raw

\* A returned link with the html-body key, a cc parameter, and a subject
\* that holds a reserved character.
C5_Witness ==
  /\ Returned
  /\ call.use_html_body
  /\ call.cc_list # <<>>
  /\ \E k \in 1..Len(call.subject) : call.subject[k] \in {"&", "=", "?"}

Reserved == {" ", "+", "/", "&", "=", "?", "\n", ",", "@"}

\* C7: every parameter value of a link is percent-encoded strictly: the
\* encoded value has no raw space, +, /, &, =, ? or newline (a space is %20),
\* decoding it gives the original value, and the recipient before ? is the
\* email, copied verbatim.
C7_StrictEncoding ==
  Returned =>
    LET r == call.result
        ps == ParamsOf(r, call.email)
        vals == <<call.subject, call.body>>
                  \o (IF call.cc_list # <<>> THEN <<Join(call.cc_list, <<",">>)>> ELSE <<>>)
    IN /\ Len(ps) = Len(vals)
       /\ \A k \in 1..Len(ps) :
            /\ \A q \in 1..Len(ps[k].raw) : ps[k].raw[q] \notin Reserved
            /\ Unquote(ps[k].raw) = vals[k]
            /\ Len(ps[k].raw) =
                 Len(vals[k]) + 2 * Cardinality({q \in 1..Len(vals[k]) : vals[k][q] \notin AlwaysSafe})
       /\ SubSeq(r, Len(T_mailto) + 1, Len(T_mailto) + Len(call.email)) = call.email
       /\ r[Len(T_mailto) + Len(call.email) + 1] = "?"
       /\ (\A q \in 1..Len(call.subject) : call.subject[q] = " ") =>
            ps[1].raw = Concat([q \in 1..Len(call.subject) |-> <<"%", "2", "0">>])

\* A returned link whose subject holds a space and a slash and whose email
\* holds reserved characters.
C7_Witness ==
  /\ Returned
  /\ call.subject = <<" ", "/">>
  /\ \E k \in 1..Len(call.email) : call.email[k] = "?"

(***************************************************************************)
(* The --cc argument, from the command line to the links of two contacts.  *)
(***************************************************************************)
CcChars == {"a", "b", "@", ",", " "}

CcStrings == StringsOver(CcChars, MaxCcLen)

CcEmails == <<<<"a", "@", "x">>, <<"b", "@", "y">>>>

InitCc ==
  /\ Idle
  /\ call \in {[op |-> "cc", cc |-> c, use_html_body |-> u, parsed |-> FALSE,
                cc_list |-> <<>>, links |-> <<>>] : c \in CcStrings, u \in BOOLEAN}

\* Lines 141-146 on the drawn argument.
CcParse ==
  /\ call.op = "cc"
  /\ ~call.parsed
  /\ call' = [call EXCEPT !.parsed = TRUE, !.cc_list = ParseCc(call.cc)]
  /\ UNCHANGED main_vars

\* Lines 205-207 for the next contact, with the list parsed once.
CcLink ==
  /\ call.op = "cc"
  /\ call.parsed
  /\ Len(call.links) < Len(CcEmails)
  /\ call' = [call EXCEPT !.links =
                Append(call.links,
                       generate_mailto(CcEmails[Len(call.links) + 1], <<"S">>, <<"B">>,
                                       call.cc_list, call.use_html_body))]
  /\ UNCHANGED main_vars

NextCc == CcParse \/ CcLink

SpecCc == InitCc /\ [][NextCc]_vars

\* The comma-separated segments of a text, stated by the positions of its commas.
CommaAt(s) == {k \in 1..Len(s) : s[k] = ","}

NthComma(s, n) ==
  IF n = 0 THEN 0
  ELSE IF n > Cardinality(CommaAt(s)) THEN Len(s) + 1
       ELSE CHOOSE k \in CommaAt(s) : Cardinality({q \in CommaAt(s) : q < k}) = n - 1

Segment(s, n) == SubSeq(s, NthComma(s, n - 1) + 1, NthComma(s, n) - 1)

\* A text without its surrounding whitespace: the part between its first
\* and its last character that is not whitespace.
Trimmed(s) ==
  LET solid == {k \in 1..Len(s) : s[k] \notin {" ", "\n"}}
  IN IF solid = {} THEN <<>>
     ELSE SubSeq(s, CHOOSE k \in solid : \A q \in solid : k <= q,
                    CHOOSE k \in solid : \A q \in solid : k >= q)

\* The trimmed, non-empty segments of the argument, in order.
ExpectedCc(cc) ==
  LET n == Cardinality(CommaAt(cc)) + 1
      keep == {k \in 1..n : Trimmed(Segment(cc, k)) # <<>>}
      Nth(j) == CHOOSE k \in keep : Cardinality({q \in keep : q < k}) = j - 1
  IN [j \in 1..Cardinality(keep) |-> Trimmed(Segment(cc, Nth(j)))]

\* The addresses of a decoded cc value, stated by the positions of its commas.
Addresses(v) == [k \in 1..(Cardinality(CommaAt(v)) + 1) |-> Segment(v, k)]

\* C6: a link has a cc parameter if and only if the CC list is not empty;
\* its decoded value is the addresses joined by commas in the given order,
\* duplicates kept; the CC list is the trimmed, non-empty comma-separated
\* segments of the --cc argument in order, the same for every contact.
C6_CcParameter ==
  (call.op = "cc" /\ call.parsed) =>
    /\ call.cc_list = ExpectedCc(call.cc)
    /\ \A k \in 1..Len(call.links) :
         LET ps == ParamsOf(call.links[k], CcEmails[k])
         IN /\ Len(ps) = 3 <=> call.cc_list # <<>>
            /\ Len(ps) = 2 <=> call.cc_list = <<>>
            /\ \A q \in 1..2 : ps[q].key # K_cc
            /\ Len(ps) = 3 =>
                 /\ ps[3].key = K_cc
                 /\ Addresses(Unquote(ps[3].raw)) = ExpectedCc(call.cc)

\* Both contacts' links built from an argument with a repeated address, an
\* empty segment and surrounding whitespace.
C6_Witness ==
  /\ call.op = "cc"
  /\ Len(call.links) = 2
  /\ call.cc \in {<<"a", ",", ",", "a">>, <<" ", "b", ",", "a">>}
  /\ Len(call.cc_list) = 2

\* Both contacts' links built from an argument that holds no address.
C6_WitnessEmpty ==
  /\ call.op = "cc"
  /\ Len(call.links) = 2
  /\ call.cc = <<" ", ",", " ">>

(***************************************************************************)
(* The personalization of one template for two contacts.                   *)
(***************************************************************************)
Pieces == {T_name, T_Name, <<"a", " ">>, <<"{", "{">>, <<"n", "a", "m", "e", "}", "}">>}

PieceSeqs == UNION {[1..n -> Pieces] : n \in 0..MaxPieces}

PersonalizeTemplates == {Concat(ps) : ps \in PieceSeqs}

PersonalizeNames == {<<"A", "l">>, <<>>, <<"a">> \o T_name, T_Name, <<"}", "}">>}

InitPersonalize ==
  /\ Idle
  /\ call \in {[op |-> "personalize", template |-> t, message |-> t, names |-> <<n1, n2>>,
                bodies |-> <<>>] :
                 t \in PersonalizeTemplates, n1 \in PersonalizeNames, n2 \in PersonalizeNames}

\* Lines 198-203 for the next contact.
PersonalizeNext ==
  /\ call.op = "personalize"
  /\ Len(call.bodies) < Len(call.names)
  /\ call' = [call EXCEPT !.bodies =
                Append(call.bodies,
                       Personalize(call.message, call.names[Len(call.bodies) + 1]))]
  /\ UNCHANGED main_vars

NextPersonalize == PersonalizeNext

SpecPersonalize == InitPersonalize /\ [][NextPersonalize]_vars

\* The template with every occurrence of either token replaced by the name,
\* in one pass over the template: inserted text is not scanned.
RECURSIVE Substituted(_, _)
Substituted(t, name) ==
  IF Len(t) < Len(T_name) THEN t
  ELSE IF SubSeq(t, 1, Len(T_name)) \in {T_name, T_Name}
       THEN name \o Substituted(SubSeq(t, Len(T_name) + 1, Len(t)), name)
       ELSE <<Head(t)>> \o Substituted(Tail(t), name)

\* C8: the personalized body is the template with every occurrence of
\* {{name}} and {{Name}} replaced by the name verbatim, inserted text never
\* being substituted again; a template without tokens is unchanged, and the
\* template stays the same for the next contact.
C8_SinglePassSubstitution ==
  call.op = "personalize" =>
    /\ call.message = call.template
    /\ \A k \in 1..Len(call.bodies) :
         /\ call.bodies[k] = Substituted(call.template, call.names[k])
         /\ (~Contains(call.template, T_name) /\ ~Contains(call.template, T_Name)) =>
              call.bodies[k] = call.template

(***************************************************************************)
(* The identifiers of two list items of one page, and the page's script.   *)
(***************************************************************************)
IdEmails == {<<"a", "@", "b">>, <<"a", "@", "b", ".", "c">>,
             <<"a", "-", "a", "t", "-", "b", "-", "d", "o", "t", "-", "c">>,
             <<"1", "-", "a", "@", "b">>, <<"2", "-", "a", "@", "b">>, <<"-", "a", "@", "b">>}

\* Two items of a page, at positions lo < hi of the contact list; the page
\* is not open in the browser yet, and nothing is stored.
InitLinkId ==
  /\ Idle
  /\ call \in {[op |-> "page", pos |-> <<lo, hi>>, emails |-> <<e1, e2>>, ids |-> <<>>,
                loaded |-> FALSE, clicked |-> {}, storage |-> <<>>, ever |-> {}] :
                 lo \in 0..MaxIndex, hi \in 0..MaxIndex, e1 \in IdEmails, e2 \in IdEmails}
  /\ call.pos[1] < call.pos[2]

\* Line 210 for the two items.
BuildIds ==
  /\ call.op = "page"
  /\ call.ids = <<>>
  /\ call' = [call EXCEPT !.ids = <<LinkId(call.pos[1], call.emails[1]),
                                    LinkId(call.pos[2], call.emails[2])>>]
  /\ UNCHANGED main_vars

InStorage(store, id) == \E k \in 1..Len(store) : store[k] = id

\* markClicked (lines 168-177): the element gets the class, its id is stored once.
StoreClick(store, id) == IF ~InStorage(store, id) THEN Append(store, id) ELSE store

MarkClicked(n) ==
  /\ call.op = "page"
  /\ call.ids # <<>>
  /\ call.loaded
  /\ call' = [call EXCEPT !.clicked = @ \cup {n},
                          !.ever = @ \cup {n},
                          !.storage = StoreClick(@, call.ids[n])]
  /\ UNCHANGED main_vars

\* document.querySelector: the first element with that data-link-id, if any.
QuerySelector(ids, id) ==
  LET found == {k \in 1..Len(ids) : ids[k] = id}
  IN IF found = {} THEN {} ELSE {CHOOSE k \in found : \A q \in found : k <= q}

\* restoreClickedState (lines 179-187): the elements found for the stored ids.
Restored(ids, store) == UNION {QuerySelector(ids, store[k]) : k \in 1..Len(store)}

\* window.onload (line 189): the page is opened and the stored state restored.
RestoreClickedState ==
  /\ call.op = "page"
  /\ call.ids # <<>>
  /\ ~call.loaded
  /\ call' = [call EXCEPT !.loaded = TRUE,
                          !.clicked = Restored(call.ids, call.storage)]
  /\ UNCHANGED main_vars

\* The page is closed: its elements lose their classes, the storage stays.
ClosePage ==
  /\ call.op = "page"
  /\ call.loaded
  /\ call' = [call EXCEPT !.loaded = FALSE, !.clicked = {}]
  /\ UNCHANGED main_vars

NextLinkId ==
  \/ BuildIds
  \/ \E n \in 1..2 : MarkClicked(n)
  \/ RestoreClickedState
  \/ ClosePage

SpecLinkId == InitLinkId /\ [][NextLinkId]_vars

\* C10: the identifiers of two items at different positions of one page
\* differ, whatever their emails, so the script marks as clicked only items
\* that were clicked.
C10_DistinctLinkIds ==
  (call.op = "page" /\ call.ids # <<>>) =>
    /\ call.ids[1] # call.ids[2]
    /\ call.clicked \subseteq call.ever
    /\ call.loaded => call.clicked = call.ever

\* An open page with one clicked item, at position 1 with an email that
\* starts with a digit; the other item is at position 12.
C10_Witness ==
  /\ call.op = "page"
  /\ call.ids # <<>>
  /\ call.pos = <<1, 12>>
  /\ call.emails = <<<<"2", "-", "a", "@", "b">>, <<"-", "a", "@", "b">>>>
  /\ call.loaded
  /\ Len(call.storage) = 1
  /\ call.clicked = {1}
  /\ call.ever = {1}

====
